---- MODULE Spec2Model ----
(***************************************************************************)
(* Model of the DefaultTable component (src/default-table.tsx): a React    *)
(* table component over the TanStack Table v8 row-modeling engine.         *)
(*                                                                         *)
(* Strings are sequences of one-character strings, so that toLowerCase,    *)
(* includes, endsWith, parseInt and number formatting are computed rather  *)
(* than assumed.  JavaScript values are records [t, n, s] carrying their   *)
(* typeof tag; t = "NaN" is the number NaN.                                *)
(*                                                                         *)
(* The component is mounted with enableSorting and enableColumnVisibility  *)
(* at their defaults (true); data, columns, loading, pageSize,             *)
(* enableFiltering and enablePagination vary.  Header clicks are plain     *)
(* clicks (no multi-sort).  The engine's behaviour is that of TanStack     *)
(* Table v8, which the component imports (lines 2-13).                     *)
(***************************************************************************)
EXTENDS Integers, Sequences, FiniteSets, TLC

VARIABLES
    props,             \* the props of the mounted component (lines 100-114)
    sorting,           \* useState<SortingState>, line 115
    columnFilters,     \* useState<ColumnFiltersState>, line 116
    globalFilter,      \* useState(''), line 117
    columnVisibility,  \* useState<VisibilityState>, lines 118-133
    page,              \* useState(0), line 134
    rowsPerPage,       \* useState(pageSize), line 135
    tablePagination,   \* the engine's own (uncontrolled) pagination state
    lastEvent,         \* history: the handler that ran last and its argument
    call,              \* a pending call of a pure function (Spec_Sort, Spec_Width)
    ret                \* its result

vars == <<props, sorting, columnFilters, globalFilter, columnVisibility,
          page, rowsPerPage, tablePagination, lastEvent, call, ret>>

\* The component's own state (the six useState cells) and the engine's.
state == <<sorting, columnFilters, globalFilter, columnVisibility,
           page, rowsPerPage, tablePagination>>

-----------------------------------------------------------------------------
(* Bounds of the model *)

\* Rows of the largest data set: 12 rows at 2 per page give 6 pages, so every
\* branch of the page-button window is taken.
MaxRows == 12
\* Largest magnitude of the numbers handed to the comparator.
MaxNum == 2
\* Longest column list handed to the width allocator.
MaxCols == 3
\* Largest flex weight handed to the width allocator.
MaxFlex == 3

-----------------------------------------------------------------------------
(* JavaScript values and strings *)

Num(n) == [t |-> "number", n |-> n, s |-> <<>>]
NaN == [t |-> "NaN", n |-> 0, s |-> <<>>]
Str(s) == [t |-> "string", n |-> 0, s |-> s]
Undefined == [t |-> "undefined", n |-> 0, s |-> <<>>]
Bool(b) == [t |-> "boolean", n |-> IF b THEN 1 ELSE 0, s |-> <<>>]

\* typeof v: NaN is a number.
TypeOf(v) == IF v.t = "NaN" THEN "number" ELSE v.t

Digit(d) == <<"0", "1", "2", "3", "4", "5", "6", "7", "8", "9">>[d + 1]

IsDigit(c) == c \in {"0", "1", "2", "3", "4", "5", "6", "7", "8", "9"}

DigitValue(c) == CHOOSE d \in 0..9 : Digit(d) = c

\* Number.prototype.toString of a non-negative integer.
RECURSIVE NatToString(_)
NatToString(n) ==
    IF n < 10 THEN <<Digit(n)>> ELSE NatToString(n \div 10) \o <<Digit(n % 10)>>

\* item + '' (line 140), value.toString() in the engine, template literals.
NumberToString(n) == IF n < 0 THEN <<"-">> \o NatToString(-n) ELSE NatToString(n)

ToStr(v) ==
    CASE v.t = "number" -> NumberToString(v.n)
      [] v.t = "NaN" -> <<"N", "a", "N">>
      [] v.t = "string" -> v.s
      [] v.t = "boolean" -> IF v.n = 1 THEN <<"t", "r", "u", "e">>
                                        ELSE <<"f", "a", "l", "s", "e">>
      [] OTHER -> <<"u", "n", "d", "e", "f", "i", "n", "e", "d">>

LowerChar(c) ==
    CASE c = "A" -> "a" [] c = "B" -> "b" [] c = "C" -> "c" [] c = "N" -> "n"
      [] OTHER -> c

\* String.prototype.toLowerCase
toLowerCase(s) == [i \in 1..Len(s) |-> LowerChar(s[i])]

\* String.prototype.includes
includes(s, search) ==
    \E i \in 0..(Len(s) - Len(search)) : SubSeq(s, i + 1, i + Len(search)) = search

\* String.prototype.endsWith
endsWith(s, suffix) ==
    /\ Len(s) >= Len(suffix)
    /\ SubSeq(s, Len(s) - Len(suffix) + 1, Len(s)) = suffix

\* Length of the longest prefix of s made of digits.
RECURSIVE DigitPrefixLen(_)
DigitPrefixLen(s) ==
    IF s = <<>> \/ ~IsDigit(Head(s)) THEN 0 ELSE 1 + DigitPrefixLen(Tail(s))

RECURSIVE DigitsValue(_)
DigitsValue(s) ==
    IF s = <<>> THEN 0
    ELSE 10 * DigitsValue(SubSeq(s, 1, Len(s) - 1)) + DigitValue(s[Len(s)])

\* parseInt(s, 10) of an unsigned string: the value of the leading digits,
\* NaN when there is none.
parseInt(s) ==
    IF DigitPrefixLen(s) = 0 THEN NaN
    ELSE Num(DigitsValue(SubSeq(s, 1, DigitPrefixLen(s))))

\* Collation rank of a lower-case character (digits before letters).
CharRank(c) ==
    CASE IsDigit(c) -> DigitValue(c)
      [] c = "a" -> 10 [] c = "b" -> 11 [] c = "c" -> 12 [] c = "n" -> 13
      [] OTHER -> 14

\* String.prototype.localeCompare on lower-case strings: -1, 0 or 1.
RECURSIVE localeCompare(_, _)
localeCompare(a, b) ==
    CASE a = <<>> /\ b = <<>> -> 0
      [] a = <<>> -> -1
      [] b = <<>> -> 1
      [] CharRank(Head(a)) < CharRank(Head(b)) -> -1
      [] CharRank(Head(a)) > CharRank(Head(b)) -> 1
      [] OTHER -> localeCompare(Tail(a), Tail(b))

-----------------------------------------------------------------------------
(* caseInsensitiveSort, lines 45-54 *)

\* The same comparator with >= in place of >: a tie compares as greater.
caseInsensitiveSort_TieGreater(valA, valB) ==
    IF TypeOf(valA) = "string" /\ TypeOf(valB) = "string"
    THEN localeCompare(toLowerCase(valA.s), toLowerCase(valB.s))
    ELSE IF TypeOf(valA) = "number" /\ TypeOf(valB) = "number"
    THEN IF valA.t = "number" /\ valB.t = "number" /\ valA.n >= valB.n THEN 1 ELSE -1
    ELSE 0

\* valA and valB are rowA.getValue(columnId) and rowB.getValue(columnId).
\* Every comparison with NaN is false.
caseInsensitiveSort(valA, valB) ==
    IF TypeOf(valA) = "string" /\ TypeOf(valB) = "string"
    THEN localeCompare(toLowerCase(valA.s), toLowerCase(valB.s))
    ELSE IF TypeOf(valA) = "number" /\ TypeOf(valB) = "number"
    THEN IF valA.t = "number" /\ valB.t = "number" /\ valA.n > valB.n THEN 1 ELSE -1
    ELSE 0

-----------------------------------------------------------------------------
(* Column definitions (ExtendedColumnDef, lines 56-61) *)

\* A column definition with an accessorKey and a string header.  width is a
\* JavaScript value (undefined, a number or a string).  enableHiding and
\* initialVisible are FALSE exactly when the definition sets them to false:
\* the code only ever tests `=== false` (lines 123, 272) and the engine reads
\* `enableHiding ?? true`, so undefined and true are one case.
ColumnDef(key, width, enableHiding, initialVisible) ==
    [accessorKey |-> key, width |-> width,
     enableHiding |-> enableHiding, initialVisible |-> initialVisible]

\* JavaScript truthiness of a value.
Truthy(v) ==
    CASE v.t = "number" -> v.n # 0
      [] v.t = "string" -> v.s # <<>>
      [] v.t = "boolean" -> v.n = 1
      [] OTHER -> FALSE

\* a + b on numbers (NaN is absorbing).
Plus(a, b) == IF a.t = "NaN" \/ b.t = "NaN" THEN NaN ELSE Num(a.n + b.n)

\* Lines 143-164: the copy of each column with sortingFn and meta filled in.
\* The definitions carry no meta and no sortingFn of their own.
normalizedColumns(columns) ==
    [i \in 1..Len(columns) |->
        LET col == columns[i]
            meta ==
                IF col.width.t # "undefined"
                THEN IF TypeOf(col.width) = "string"
                     THEN [fixed |-> col.width, flex |-> Undefined]
                     ELSE IF TypeOf(col.width) = "number"
                     THEN [fixed |-> Undefined, flex |-> col.width]
                     ELSE [fixed |-> Undefined, flex |-> Undefined]
                ELSE [fixed |-> Undefined, flex |-> Num(1)]
        IN  [accessorKey |-> col.accessorKey,
             width |-> col.width,
             enableHiding |-> col.enableHiding,
             initialVisible |-> col.initialVisible,
             sortingFn |-> "caseInsensitiveSort",
             meta |-> meta]]

PX == <<"p", "x">>

\* Lines 168-177: the sum of parseInt over the fixed widths ending in "px".
RECURSIVE totalFixedPx(_)
totalFixedPx(cols) ==
    IF cols = <<>> THEN Num(0)
    ELSE LET c == cols[Len(cols)]
             rest == totalFixedPx(SubSeq(cols, 1, Len(cols) - 1))
         IN  IF Truthy(c.meta.fixed) /\ endsWith(c.meta.fixed.s, PX)
             THEN Plus(rest, parseInt(c.meta.fixed.s))
             ELSE rest

\* Lines 168-177: the sum of the flex weights of the columns that are not
\* fixed-pixel columns.
RECURSIVE totalFlex(_)
totalFlex(cols) ==
    IF cols = <<>> THEN Num(0)
    ELSE LET c == cols[Len(cols)]
             rest == totalFlex(SubSeq(cols, 1, Len(cols) - 1))
         IN  IF Truthy(c.meta.fixed) /\ endsWith(c.meta.fixed.s, PX)
             THEN rest
             ELSE IF Truthy(c.meta.flex) THEN Plus(rest, c.meta.flex)
             ELSE rest

\* totalFlex > 0 (false for NaN).
Positive(v) == v.t = "number" /\ v.n > 0

AutoWidth == [kind |-> "auto", fixed |-> <<>>,
              pctNum |-> 0, pxNum |-> Num(0), den |-> 1]

\* Lines 179-185: one width per column.  A fixed column keeps its literal
\* string; a flex column gets `calc(P% - Xpx)` with
\* P = (flex / totalFlex) * 100 and X = totalFixedPx / totalFlex, kept here as
\* the exact fractions pctNum / den and pxNum / den.
colWidths(cols) ==
    [i \in 1..Len(cols) |->
        LET c == cols[i] IN
        IF Truthy(c.meta.fixed)
        THEN [AutoWidth EXCEPT !.kind = "fixed", !.fixed = c.meta.fixed.s]
        ELSE IF Truthy(c.meta.flex) /\ Positive(totalFlex(cols))
        THEN [kind |-> "calc", fixed |-> <<>>,
              pctNum |-> c.meta.flex.n * 100,
              pxNum |-> totalFixedPx(cols),
              den |-> totalFlex(cols).n]
        ELSE AutoWidth]

-----------------------------------------------------------------------------
(* Props: the data sets and column lists the component is mounted with *)

NameOf(i) ==
    CASE i % 3 = 0 -> <<"A", "b">>
      [] i % 3 = 1 -> <<"a", "c">>
      [] OTHER -> <<"B">>

\* Row i of a data set: a numeric id (all ids differ) and a string field.
\* index is the row's position in data, as the engine records it.
Row(i) == [index |-> i - 1, id |-> Num(i), name |-> Str(NameOf(i))]

DataOf(n) == [i \in 1..n |-> Row(i)]

DataSizes == {0, 3, MaxRows}

W80px == Str(<<"8", "0", "p", "x">>)

\* The column lists the component is mounted with.
ColumnLists ==
    { \* the README's basic example: nothing set
      << ColumnDef("id", Undefined, TRUE, TRUE),
         ColumnDef("name", Undefined, TRUE, TRUE) >>,
      \* after the README's advanced example: a fixed id column that cannot
      \* be hidden, a flex column hidden by default
      << ColumnDef("id", W80px, FALSE, TRUE),
         ColumnDef("name", Num(2), TRUE, FALSE) >>,
      \* a column that cannot be hidden and is hidden by default
      << ColumnDef("id", Undefined, FALSE, FALSE),
         ColumnDef("name", Undefined, TRUE, TRUE) >> }

\* What the user types into the search box.
FilterTexts ==
    { <<>>, <<"1", "2">>, <<"A">>, <<"c", "c">> }

\* Line 108: pageSize = 20 by default; 2 is a caller's choice.
InitialPageSizes == {2, 20}

\* Lines 137-141: the items of pageSizeCollection.
pageSizeItems == {5, 10, 15, 20, 25}

\* itemToValue, line 140: item + ''
itemToValue(item) == NumberToString(item)

ColumnIds(columns) == {columns[i].accessorKey : i \in 1..Len(columns)}

ColumnOf(columns, id) ==
    columns[CHOOSE i \in 1..Len(columns) : columns[i].accessorKey = id]

-----------------------------------------------------------------------------
(* The row-modeling engine (TanStack Table v8), as configured at lines     *)
(* 188-211.  Its state is the component's: sorting, columnFilters,         *)
(* globalFilter, columnVisibility and pagination are all passed in         *)
(* `state`, and a value passed in `state` overrides the engine's own.      *)

\* table.getState().pagination, lines 204-207.
getStatePagination == [pageIndex |-> page, pageSize |-> rowsPerPage]

\* filterFns.includesString, the engine's default global filter function.
includesString(row, columnId, filterValue) ==
    includes(toLowerCase(ToStr(row[columnId])), toLowerCase(filterValue))

\* The engine's filterRows under a global filter text: the rows one of whose
\* globally filterable columns (hidden ones included) contains the text.
filterRows(data, columns, text) ==
    IF Len(data) = 0 \/ text = <<>> THEN data
    ELSE LET Passes(row) ==
                 \E id \in ColumnIds(columns) :
                     /\ TypeOf(data[1][id]) \in {"string", "number"}
                     /\ includesString(row, id, text)
         IN  SelectSeq(data, Passes)

\* The sort comparison of two rows under one sort entry, ties broken by the
\* rows' index (the engine's sortData).
RowBefore(rowA, rowB, entry) ==
    LET sortInt == caseInsensitiveSort(rowA[entry.id], rowB[entry.id])
        signed == IF entry.desc THEN -sortInt ELSE sortInt
    IN  IF signed # 0 THEN signed < 0 ELSE rowA.index < rowB.index

\* The engine's sortData under a sorting state of at most one entry: each row
\* goes after the rows the comparison puts before it.  The comparator orders
\* the values of the model's columns totally (the numeric ids all differ, so
\* its answer -1 on equal numbers never decides a pair).
sortRows(rows, sortingState) ==
    IF sortingState = <<>> \/ Len(rows) = 0 THEN rows
    ELSE LET n == Len(rows)
             rank == [k \in 1..n |->
                        1 + Cardinality({j \in (1..n) \ {k} :
                                RowBefore(rows[j], rows[k], sortingState[1])})]
         IN  SubSeq([p \in 1..n |-> rows[CHOOSE k \in 1..n : rank[k] = p]], 1, n)

\* The sorting states a plain header click can produce.
SortingStates ==
    {<<>>} \cup {<< [id |-> id, desc |-> d] >> : id \in {"id", "name"}, d \in BOOLEAN}

\* The engine memoizes each row model on its inputs.  The memo of the
\* filtered and of the sorted row model, over the data sets, column lists,
\* filter texts and sorting states of the model.
FilteredRowModelMemo ==
    [k \in DataSizes \X ColumnLists \X FilterTexts |->
        filterRows(DataOf(k[1]), k[2], k[3])] @@ <<>>

SortedRowModelMemo ==
    [k \in DataSizes \X ColumnLists \X FilterTexts \X SortingStates |->
        sortRows(FilteredRowModelMemo[<<k[1], k[2], k[3]>>], k[4])] @@ <<>>

\* table.getFilteredRowModel().rows, line 193: with filtering off, the core
\* rows.
getFilteredRowModel ==
    IF ~props.enableFiltering THEN props.data
    ELSE FilteredRowModelMemo[<<Len(props.data), props.columns, globalFilter>>]

\* table.getSortedRowModel().rows, line 192, over the filtered row model.
getSortedRowModel ==
    SortedRowModelMemo[<<Len(props.data), props.columns,
                         IF props.enableFiltering THEN globalFilter ELSE <<>>,
                         sorting>>]

Min(a, b) == IF a < b THEN a ELSE b
Max(a, b) == IF a > b THEN a ELSE b

\* table.getRowModel().rows, line 194: the page slice
\* rows.slice(pageSize * pageIndex, pageSize * pageIndex + pageSize).
getRowModel ==
    LET rows == getSortedRowModel
        pageStart == getStatePagination.pageSize * getStatePagination.pageIndex
        pageEnd == pageStart + getStatePagination.pageSize
    IN  IF ~props.enablePagination THEN rows
        ELSE SubSeq(rows, pageStart + 1, Min(pageEnd, Len(rows)))

\* column.getIsVisible(): columnVisibility[id] ?? true
getIsVisible(id) ==
    IF id \in DOMAIN columnVisibility THEN columnVisibility[id] ELSE TRUE

\* column.getCanHide(): columnDef.enableHiding ?? true
getCanHide(id) == ColumnOf(props.columns, id).enableHiding

\* table.getVisibleLeafColumns(), in column order.
getVisibleLeafColumns ==
    LET Visible(col) == getIsVisible(col.accessorKey)
    IN  SelectSeq(props.columns, Visible)

-----------------------------------------------------------------------------
(* What a render derives from the state, lines 235-242 *)

filteredData == getRowModel

totalRows == Len(getFilteredRowModel)

\* Math.ceil(totalRows / rowsPerPage), for rowsPerPage > 0.
pageCount == (totalRows + rowsPerPage - 1) \div rowsPerPage

startRow == page * rowsPerPage + 1

endRow == Min((page + 1) * rowsPerPage, totalRows)

\* The count of visible columns over every column, hidden or not.
visibleColumnsCount_AllColumns == Len(props.columns)

visibleColumnsCount == Len(getVisibleLeafColumns)

-----------------------------------------------------------------------------
(* What a render puts on the screen *)

BodyRow(kind, colSpan, index) == [kind |-> kind, colSpan |-> colSpan, index |-> index]

\* The body with the empty-state row not guarded by !loading.
TableBody_EmptyWhileLoading ==
    (IF props.loading
     THEN << BodyRow("spinner", visibleColumnsCount, -1) >>
     ELSE [i \in 1..Len(filteredData) |-> BodyRow("data", 0, filteredData[i].index)])
    \o
    (IF Len(filteredData) = 0
     THEN << BodyRow("empty", visibleColumnsCount, -1) >>
     ELSE <<>>)

\* Lines 343-368: the rows of Table.Body, in order.
TableBody ==
    (IF props.loading
     THEN << BodyRow("spinner", visibleColumnsCount, -1) >>
     ELSE [i \in 1..Len(filteredData) |-> BodyRow("data", 0, filteredData[i].index)])
    \o
    (IF Len(filteredData) = 0 /\ ~props.loading
     THEN << BodyRow("empty", visibleColumnsCount, -1) >>
     ELSE <<>>)

\* The footer guard without the totalRows > 0 test.
FooterRendered_NoTotalGuard == props.enablePagination

\* Line 372: the guard of the pagination footer.
FooterRendered == props.enablePagination /\ totalRows > 0

\* Line 411: the expression inside the row-range Text element.
rowRangeText ==
    IF totalRows = 0
    THEN <<"0", "-", "0", " ", "o", "f", " ", "0">>
    ELSE NumberToString(startRow) \o <<"-">> \o NumberToString(endRow)
         \o <<" ", "o", "f", " ">> \o NumberToString(totalRows)

\* The row-range texts on the screen: the one of the footer, when the footer
\* is rendered.
RenderedRowRangeTexts == IF FooterRendered THEN << rowRangeText >> ELSE <<>>

\* Lines 416-427: the page numbers of the page-number buttons, in order.
pageButtons ==
    [k \in 1..Min(pageCount, 5) |->
        LET i == k - 1 IN
        IF pageCount <= 5 THEN i
        ELSE IF page < 3 THEN i
        ELSE IF page > pageCount - 3 THEN pageCount - 5 + i
        ELSE page - 2 + i]

\* The menu without the skip of line 272: every column is listed.
columnMenuItems_All == ColumnIds(props.columns)

\* Lines 268-301: the ids of the entries of the column-visibility menu.
columnMenuItems ==
    {id \in ColumnIds(props.columns) : ColumnOf(props.columns, id).enableHiding # FALSE}

-----------------------------------------------------------------------------
(* Initial state: the first render *)

\* Lines 118-133: the visibility map holds false for each column whose
\* definition says initialVisible: false, and nothing else.
initialVisibility(columns) ==
    [id \in {c \in ColumnIds(columns) : ColumnOf(columns, c).initialVisible = FALSE}
        |-> FALSE]

\* The handler that ran last: its name, the page size chosen (a page-size
\* change), the column (a sort or visibility toggle), and the page index
\* before it (a page-size change).
Event(op, arg, col, fromPage) ==
    [op |-> op, arg |-> arg, col |-> col, fromPage |-> fromPage]

NoCall == [fn |-> "none", value |-> 0]

Init ==
    /\ props \in [data : {DataOf(n) : n \in DataSizes},
                  columns : ColumnLists,
                  loading : BOOLEAN,
                  enableFiltering : BOOLEAN,
                  enablePagination : BOOLEAN]
    /\ sorting = <<>>
    /\ columnFilters = <<>>
    /\ globalFilter = <<>>
    /\ columnVisibility = initialVisibility(props.columns)
    /\ page = 0
    /\ rowsPerPage \in InitialPageSizes
    \* the engine's default initial pagination state
    /\ tablePagination = [pageIndex |-> 0, pageSize |-> 10]
    /\ lastEvent = Event("mount", 0, "", 0)
    /\ call = NoCall
    /\ ret = NoCall

-----------------------------------------------------------------------------
(* Engine setters *)

\* table.setPageIndex on the engine's own state: clamps at 0 (no pageCount
\* option is given, so there is no upper clamp).
setPageIndex(old, pageIndex) == [old EXCEPT !.pageIndex = Max(0, pageIndex)]

\* table.setPageSize on the engine's own state: keeps the top row in view.
setPageSize(old, pageSize) ==
    [pageSize |-> Max(1, pageSize),
     pageIndex |-> (old.pageSize * old.pageIndex) \div Max(1, pageSize)]

\* table.resetPageIndex(), queued by the engine whenever the filtered or the
\* sorted row model is recomputed (autoResetPageIndex, on by default when
\* manualPagination is false, line 209).  It reaches the engine's own state
\* only: no onPaginationChange is given, and state.pagination overrides it.
autoResetPageIndex(old) == setPageIndex(old, 0)

\* column.getFirstSortDir(): ascending when the first filtered row holds a
\* string in the column, descending otherwise.
getFirstSortDir(id) ==
    IF Len(getFilteredRowModel) > 0 /\ TypeOf(getFilteredRowModel[1][id]) = "string"
    THEN "asc" ELSE "desc"

\* column.getIsSorted()
getIsSorted(id) ==
    IF \E i \in 1..Len(sorting) : sorting[i].id = id
    THEN LET e == sorting[CHOOSE i \in 1..Len(sorting) : sorting[i].id = id]
         IN  IF e.desc THEN "desc" ELSE "asc"
    ELSE "none"

\* column.toggleSorting() of a plain click: first direction, then the other,
\* then unsorted; a column other than the sorted one replaces it.
toggleSorting(id) ==
    LET isSorted == getIsSorted(id)
        first == getFirstSortDir(id)
        next == IF isSorted = "none" THEN first
                ELSE IF isSorted # first THEN "none"
                ELSE IF isSorted = "desc" THEN "asc" ELSE "desc"
    IN  IF isSorted # "none" /\ next = "none"
        THEN SelectSeq(sorting, LAMBDA e : e.id # id)
        ELSE IF isSorted # "none"
        THEN [i \in 1..Len(sorting) |->
                IF sorting[i].id = id THEN [id |-> id, desc |-> next = "desc"]
                ELSE sorting[i]]
        ELSE << [id |-> id, desc |-> next = "desc"] >>

\* column.toggleVisibility(value): the next columnVisibility.  Nothing
\* changes for a column that cannot be hidden.
toggleVisibility(id, value) ==
    IF getCanHide(id)
    THEN [k \in (DOMAIN columnVisibility) \cup {id} |->
            IF k = id THEN value ELSE columnVisibility[k]]
    ELSE columnVisibility

-----------------------------------------------------------------------------
(* Handlers *)

\* Lines 213-216.
handleChangePage(newPage) ==
    /\ page' = newPage
    /\ tablePagination' = setPageIndex(tablePagination, newPage)
    /\ UNCHANGED <<sorting, columnFilters, globalFilter, columnVisibility,
                   rowsPerPage>>

\* The page-size handler without setPage(0) and table.setPageIndex(0).
handleChangeRowsPerPage_KeepPage(value) ==
    /\ rowsPerPage' = parseInt(value).n
    /\ page' = page
    /\ tablePagination' = setPageSize(tablePagination, parseInt(value).n)
    /\ UNCHANGED <<sorting, columnFilters, globalFilter, columnVisibility>>

\* Lines 218-224.  value is one of the collection's item values, so parseInt
\* yields a number.
handleChangeRowsPerPage(value) ==
    /\ rowsPerPage' = parseInt(value).n
    /\ page' = 0
    /\ tablePagination' =
           setPageIndex(setPageSize(tablePagination, parseInt(value).n), 0)
    /\ UNCHANGED <<sorting, columnFilters, globalFilter, columnVisibility>>

-----------------------------------------------------------------------------
(* User events *)

\* Line 414: the First-page button, disabled on page 0.
FirstPage ==
    /\ FooterRendered
    /\ page # 0
    /\ handleChangePage(0)
    /\ lastEvent' = Event("changePage", 0, "", 0)
    /\ UNCHANGED <<props, call, ret>>

\* Line 415: the Previous-page button, disabled on page 0.
PreviousPage ==
    /\ FooterRendered
    /\ page # 0
    /\ handleChangePage(page - 1)
    /\ lastEvent' = Event("changePage", 0, "", 0)
    /\ UNCHANGED <<props, call, ret>>

\* Line 423: one of the page-number buttons.
PageButton ==
    /\ FooterRendered
    /\ \E k \in DOMAIN pageButtons : handleChangePage(pageButtons[k])
    /\ lastEvent' = Event("changePage", 0, "", 0)
    /\ UNCHANGED <<props, call, ret>>

\* Line 428: the Next-page button, disabled on the last page and beyond.
NextPage ==
    /\ FooterRendered
    /\ ~(page >= pageCount - 1)
    /\ handleChangePage(page + 1)
    /\ lastEvent' = Event("changePage", 0, "", 0)
    /\ UNCHANGED <<props, call, ret>>

\* Line 429: the Last-page button, disabled on the last page and beyond.
LastPage ==
    /\ FooterRendered
    /\ ~(page >= pageCount - 1)
    /\ handleChangePage(pageCount - 1)
    /\ lastEvent' = Event("changePage", 0, "", 0)
    /\ UNCHANGED <<props, call, ret>>

\* Line 384: the page-size select, onValueChange with the chosen item's value.
SelectPageSize ==
    /\ FooterRendered
    /\ \E item \in pageSizeItems :
        /\ handleChangeRowsPerPage(itemToValue(item))
        /\ lastEvent' = Event("changeRowsPerPage", item, "", page)
    /\ UNCHANGED <<props, call, ret>>

\* Line 255: typing in the search box: setGlobalFilter(e.target.value).  The
\* filtered row model is recomputed, which resets the engine's own page index.
ChangeGlobalFilter ==
    /\ props.enableFiltering
    /\ \E text \in FilterTexts :
        /\ text # globalFilter
        /\ globalFilter' = text
    /\ tablePagination' = autoResetPageIndex(tablePagination)
    /\ lastEvent' = Event("changeGlobalFilter", 0, "", 0)
    /\ UNCHANGED <<props, sorting, columnFilters, columnVisibility, page,
                   rowsPerPage, call, ret>>

\* Line 330: a click on the header of a visible column.  The sorted row model
\* is recomputed, which resets the engine's own page index.
ClickColumnHeader ==
    /\ \E i \in 1..Len(getVisibleLeafColumns) :
        sorting' = toggleSorting(getVisibleLeafColumns[i].accessorKey)
    /\ tablePagination' = autoResetPageIndex(tablePagination)
    /\ lastEvent' = Event("toggleSorting", 0, "", 0)
    /\ UNCHANGED <<props, columnFilters, globalFilter, columnVisibility, page,
                   rowsPerPage, call, ret>>

\* The menu entry's handlers passing column.getIsVisible() un-negated.
ClickColumnMenuItem_NoNegation ==
    /\ \E id \in columnMenuItems :
        /\ columnVisibility' = toggleVisibility(id, getIsVisible(id))
        /\ lastEvent' = Event("toggleVisibility", 0, id, 0)
    /\ UNCHANGED <<props, sorting, columnFilters, globalFilter, page, rowsPerPage,
                   tablePagination, call, ret>>

\* Lines 286-293: a click on an entry of the column-visibility menu; onClick
\* and onCheckedChange both call column.toggleVisibility(!column.getIsVisible())
\* with the visibility of the current render.
ClickColumnMenuItem ==
    /\ \E id \in columnMenuItems :
        /\ columnVisibility' = toggleVisibility(id, ~getIsVisible(id))
        /\ lastEvent' = Event("toggleVisibility", 0, id, 0)
    /\ UNCHANGED <<props, sorting, columnFilters, globalFilter, page, rowsPerPage,
                   tablePagination, call, ret>>

\* column.toggleVisibility(!column.getIsVisible()) on a column the menu does
\* not list: the call the menu would make if it listed the column.
ToggleUnlistedColumn ==
    /\ \E id \in ColumnIds(props.columns) \ columnMenuItems :
        /\ columnVisibility' = toggleVisibility(id, ~getIsVisible(id))
        /\ lastEvent' = Event("toggleVisibility", 0, id, 0)
    /\ UNCHANGED <<props, sorting, columnFilters, globalFilter, page, rowsPerPage,
                   tablePagination, call, ret>>

Next ==
    \/ FirstPage
    \/ PreviousPage
    \/ PageButton
    \/ NextPage
    \/ LastPage
    \/ SelectPageSize
    \/ ChangeGlobalFilter
    \/ ClickColumnHeader
    \/ ClickColumnMenuItem
    \/ ToggleUnlistedColumn

Spec == Init /\ [][Next]_vars

-----------------------------------------------------------------------------
(* The comparator and the width allocator as pure functions: Init draws the *)
(* arguments, the one action applies the function.                          *)

NoProps == [data |-> <<>>, columns |-> <<>>, loading |-> FALSE,
            enableFiltering |-> TRUE, enablePagination |-> TRUE]

Unmounted ==
    /\ props = NoProps
    /\ sorting = <<>>
    /\ columnFilters = <<>>
    /\ globalFilter = <<>>
    /\ columnVisibility = <<>>
    /\ page = 0
    /\ rowsPerPage = 20
    /\ tablePagination = [pageIndex |-> 0, pageSize |-> 10]
    /\ lastEvent = Event("none", 0, "", 0)

\* The cell values handed to the comparator.
SortValues ==
    {Num(n) : n \in (-MaxNum)..MaxNum}
    \cup {NaN, Undefined, Bool(TRUE)}
    \cup {Str(s) : s \in {<<>>, <<"a">>, <<"A">>, <<"b">>, <<"A", "b">>}}

Init_Sort ==
    /\ Unmounted
    /\ call \in [fn : {"caseInsensitiveSort"}, valA : SortValues, valB : SortValues]
    /\ ret = NoCall

CallCaseInsensitiveSort ==
    /\ call.fn = "caseInsensitiveSort"
    /\ ret = NoCall
    /\ ret' = [fn |-> "caseInsensitiveSort",
               value |-> caseInsensitiveSort(call.valA, call.valB)]
    /\ UNCHANGED <<props, state, lastEvent, call>>

Spec_Sort == Init_Sort /\ [][CallCaseInsensitiveSort]_vars

\* The width hints of a column: none, a flex weight, a pixel width, a
\* percentage.
WidthHints ==
    {Undefined} \cup {Num(n) : n \in 1..MaxFlex}
    \cup {W80px, Str(<<"5", "p", "x">>), Str(<<"2", "0", "%">>)}

\* Accessor keys for the columns of a list handed to the allocator.
WidthColumnKeys == <<"a", "b", "c", "d", "e", "f">>

WidthColumnLists ==
    UNION { { [i \in 1..len |-> ColumnDef(WidthColumnKeys[i], w[i], TRUE, TRUE)]
                : w \in [1..len -> WidthHints] }
            : len \in 1..MaxCols }

Init_Width ==
    /\ Unmounted
    /\ call \in [fn : {"colWidths"}, columns : WidthColumnLists]
    /\ ret = NoCall

CallColWidths ==
    /\ call.fn = "colWidths"
    /\ ret = NoCall
    /\ ret' = [fn |-> "colWidths",
               value |-> colWidths(normalizedColumns(call.columns))]
    /\ UNCHANGED <<props, state, lastEvent, call>>

Spec_Width == Init_Width /\ [][CallColWidths]_vars

-----------------------------------------------------------------------------
(* Properties *)

RECURSIVE SumSeq(_)
SumSeq(ns) == IF ns = <<>> THEN 0 ELSE Head(ns) + SumSeq(Tail(ns))

\* The sum of F over the elements of a sequence.
SumOver(seq, F(_)) == SumSeq([i \in DOMAIN seq |-> F(seq[i])])

\* The ids of the columns that are visible, read off the visibility map.
VisibleIds ==
    {id \in ColumnIds(props.columns) :
        ~(id \in DOMAIN columnVisibility /\ columnVisibility[id] = FALSE)}

\* The indexes of the data rows whose id or name contains the text, compared
\* without regard to case.
RowsContaining(text) ==
    {i \in 1..Len(props.data) :
        \/ includes(toLowerCase(ToStr(props.data[i].id)), toLowerCase(text))
        \/ includes(toLowerCase(ToStr(props.data[i].name)), toLowerCase(text))}

\* The indexes of the data rows rendered in the body.
DisplayedRows ==
    {TableBody[k].index : k \in {j \in DOMAIN TableBody : TableBody[j].kind = "data"}}

\* C1: whenever the pagination footer is rendered, there are exactly
\* min(pageCount, 5) page-number buttons, pageCount being
\* ceil(filteredTotal / rowsPerPage), and one of them is the current page.
C1_PageButtonWindow ==
    FooterRendered =>
        LET count == (totalRows + rowsPerPage - 1) \div rowsPerPage
        IN  /\ Len(pageButtons) = Min(count, 5)
            /\ \E k \in DOMAIN pageButtons : pageButtons[k] = page

\* C2: a page-size change made on a page k > 0 with the choice v leaves the
\* controller on page 0 with rowsPerPage = v, and the engine's pagination
\* state, both the one it reads and its own, at (pageIndex 0, pageSize v).
C2_PageSizeChangeResetsPage ==
    (lastEvent.op = "changeRowsPerPage" /\ lastEvent.fromPage > 0) =>
        /\ page = 0
        /\ rowsPerPage = lastEvent.arg
        /\ getStatePagination = [pageIndex |-> 0, pageSize |-> lastEvent.arg]
        /\ tablePagination = [pageIndex |-> 0, pageSize |-> lastEvent.arg]

\* C2 witness: a page-size change to 10 rows made on a page after the first.
C2_Witness ==
    /\ lastEvent.op = "changeRowsPerPage"
    /\ lastEvent.fromPage > 0
    /\ lastEvent.arg = 10
    /\ page = 0

\* C3: with filtering and pagination on (and the table not loading), after
\* the filter text changes to one that exactly one row contains, the body
\* shows exactly that row.
C3_FilterToOneRow ==
    ( /\ lastEvent.op = "changeGlobalFilter"
      /\ props.enableFiltering /\ props.enablePagination /\ ~props.loading
      /\ globalFilter # <<>>
      /\ Cardinality(RowsContaining(globalFilter)) = 1 )
    => DisplayedRows = {props.data[i].index : i \in RowsContaining(globalFilter)}

ZeroOfZero == <<"0", "-", "0", " ", "o", "f", " ", "0">>

RangeText(start, end, total) ==
    NumberToString(start) \o <<"-">> \o NumberToString(end)
    \o <<" ", "o", "f", " ">> \o NumberToString(total)

\* C4 as stated: with pagination on, a filtered total of 0 renders the
\* row-range text "0-0 of 0", and a total > 0 renders "{start}-{end} of
\* {total}" with start = page * rowsPerPage + 1 and
\* end = min((page + 1) * rowsPerPage, total).
C4_RowRangeText_AsStated ==
    props.enablePagination =>
        LET total == totalRows IN
        /\ total = 0 => RenderedRowRangeTexts = << ZeroOfZero >>
        /\ total > 0 =>
            RenderedRowRangeTexts =
                << RangeText(page * rowsPerPage + 1,
                             Min((page + 1) * rowsPerPage, total), total) >>

\* C4 amended: with pagination on, a filtered total of 0 renders no row-range
\* text at all (the footer is not rendered), and a total > 0 renders
\* "{start}-{end} of {total}" as above.
C4_RowRangeText ==
    props.enablePagination =>
        LET total == totalRows IN
        /\ total = 0 => RenderedRowRangeTexts = <<>>
        /\ total > 0 =>
            RenderedRowRangeTexts =
                << RangeText(page * rowsPerPage + 1,
                             Min((page + 1) * rowsPerPage, total), total) >>

\* C4 witness: pagination on, data present, and a filter text that no row
\* contains has just been typed.
C4_Witness ==
    /\ props.enablePagination
    /\ Len(props.data) > 0
    /\ lastEvent.op = "changeGlobalFilter"
    /\ RowsContaining(globalFilter) = {}

\* C8: whenever loading is set, the body is exactly one row, the busy row,
\* spanning the visible columns: no data row and no empty-state row.
C8_LoadingBody ==
    props.loading =>
        LET body == TableBody IN
        /\ Len(body) = 1
        /\ body[1].kind = "spinner"
        /\ body[1].colSpan = Cardinality(VisibleIds)

\* C8 witness: loading, with data that passes the filter on the current page.
C8_Witness ==
    /\ props.loading
    /\ Len(getRowModel) > 0
    /\ globalFilter # <<>>
    /\ page > 0

\* C9: whenever loading is off and the derived row set is empty, the body is
\* exactly one row, the empty-state row, spanning the visible columns;
\* whenever it is off and the derived row set is not empty, the body holds no
\* empty-state row.
C9_EmptyStateBody ==
    ~props.loading =>
        LET body == TableBody
            derived == Len(getRowModel)
        IN  /\ derived = 0 =>
                /\ Len(body) = 1
                /\ body[1].kind = "empty"
                /\ body[1].colSpan = Cardinality(VisibleIds)
            /\ derived > 0 =>
                \A k \in DOMAIN body : body[k].kind # "empty"

\* C9 witness: not loading, no row to show, and a column the user has just
\* hidden.
C9_Witness ==
    /\ ~props.loading
    /\ Len(getRowModel) = 0
    /\ lastEvent.op = "toggleVisibility"
    /\ lastEvent.col \notin VisibleIds
    /\ ColumnOf(props.columns, lastEvent.col).enableHiding

\* C5: for a column list of flex weights and fixed pixel widths with at least
\* one flex column (totalFlex > 0), the percentages of the flex columns sum
\* to 100% and the pixel offsets subtracted from them sum to totalFixedPx,
\* the sum of the fixed pixel widths.
C5_WidthsFillAvailableWidth ==
    ( /\ ret.fn = "colWidths"
      /\ \A i \in DOMAIN call.columns :
            TypeOf(call.columns[i].width) = "string"
                => endsWith(call.columns[i].width.s, PX)
      /\ \E i \in DOMAIN call.columns : TypeOf(call.columns[i].width) # "string" )
    =>
        LET widths == ret.value
            flexCols == {i \in DOMAIN widths : widths[i].kind = "calc"}
            fixedPx == SumOver(call.columns, LAMBDA c :
                          IF TypeOf(c.width) = "string" THEN parseInt(c.width.s).n ELSE 0)
            flexSum == SumOver(call.columns, LAMBDA c :
                          IF c.width.t = "number" THEN c.width.n
                          ELSE IF c.width.t = "undefined" THEN 1 ELSE 0)
        IN  /\ flexCols = {i \in DOMAIN call.columns :
                              TypeOf(call.columns[i].width) # "string"}
            \* sum of pctNum / den = 100
            /\ SumOver(widths, LAMBDA w : IF w.kind = "calc" THEN w.pctNum ELSE 0)
                    = 100 * flexSum
            \* sum of pxNum / den = totalFixedPx
            /\ SumOver(widths, LAMBDA w : IF w.kind = "calc" THEN w.pxNum.n ELSE 0)
                    = fixedPx * flexSum

\* C6: invoking the visibility toggle of a column marked non-hideable leaves
\* the visibility map, the visible column list and all other state as they
\* were; and the column-visibility menu never lists such a column.
C6_NonHideableToggleIsNoOp ==
    /\ [](\A id \in columnMenuItems : ColumnOf(props.columns, id).enableHiding)
    /\ [][ \A id \in ColumnIds(props.columns) :
            ( /\ lastEvent'.op = "toggleVisibility"
              /\ lastEvent'.col = id
              /\ ~ColumnOf(props.columns, id).enableHiding )
            => /\ columnVisibility' = columnVisibility
               /\ getVisibleLeafColumns' = getVisibleLeafColumns
               /\ UNCHANGED <<props, state>> ]_vars

\* C6 witness: the toggle of a non-hideable column has just been invoked.
C6_Witness ==
    /\ lastEvent.op = "toggleVisibility"
    /\ ~ColumnOf(props.columns, lastEvent.col).enableHiding

\* C7: toggling a hideable column flips that column's visibility and leaves
\* the visibility of every other column, the sort, the filters, the page
\* index and the page size as they were.
C7_ToggleFlipsOneColumn ==
    [][ \A id \in ColumnIds(props.columns) :
            ( /\ lastEvent'.op = "toggleVisibility"
              /\ lastEvent'.col = id
              /\ ColumnOf(props.columns, id).enableHiding )
            => /\ getIsVisible(id)' = ~getIsVisible(id)
               /\ \A other \in ColumnIds(props.columns) \ {id} :
                    getIsVisible(other)' = getIsVisible(other)
               /\ UNCHANGED <<props, sorting, columnFilters, globalFilter, page,
                              rowsPerPage, tablePagination>> ]_vars

\* C7 witness: a toggle has just hidden the last visible column of a list
\* whose columns are all hideable.
C7_Witness ==
    /\ lastEvent.op = "toggleVisibility"
    /\ \A id \in ColumnIds(props.columns) : ColumnOf(props.columns, id).enableHiding
    /\ VisibleIds = {}

\* a > b on JavaScript numbers: false when either is NaN.
Greater(a, b) == a.t = "number" /\ b.t = "number" /\ a.n > b.n

\* C10: on two numbers the comparator returns a positive value when a > b
\* and a non-positive one otherwise (a = b included); on two values that are
\* neither both strings nor both numbers it returns 0.
C10_ComparatorSign ==
    ret.fn = "caseInsensitiveSort" =>
        LET a == call.valA
            b == call.valB
        IN  /\ (TypeOf(a) = "number" /\ TypeOf(b) = "number") =>
                /\ Greater(a, b) => ret.value > 0
                /\ ~Greater(a, b) => ret.value <= 0
            /\ ( /\ ~(TypeOf(a) = "string" /\ TypeOf(b) = "string")
                 /\ ~(TypeOf(a) = "number" /\ TypeOf(b) = "number") )
                => ret.value = 0

\* C10 witness: the comparator has been applied to two equal numbers.
C10_Witness ==
    /\ ret.fn = "caseInsensitiveSort"
    /\ call.valA.t = "number"
    /\ call.valA = call.valB
    /\ ret.value = -1

\* C11: after any sequence of user events the page index lies between 0 and
\* max(pageCount - 1, 0); hence the displayed row range has
\* start <= end <= total, and a non-empty filtered result never shows an
\* empty page.
C11_PageIndexInRange ==
    LET total == totalRows
        count == (total + rowsPerPage - 1) \div rowsPerPage
    IN  /\ 0 <= page
        /\ page <= Max(count - 1, 0)
        /\ FooterRendered =>
            /\ page * rowsPerPage + 1 <= Min((page + 1) * rowsPerPage, total)
            /\ Min((page + 1) * rowsPerPage, total) <= total
        /\ (props.enablePagination /\ total > 0) => Len(getRowModel) > 0

\* C12: a column marked non-hideable (enableHiding = FALSE) is visible in the
\* initial state and in every state reachable by visibility toggles, whatever
\* its initialVisible flag and identifier.
C12_NonHideableAlwaysVisible ==
    \A id \in ColumnIds(props.columns) :
        ~ColumnOf(props.columns, id).enableHiding => getIsVisible(id)

====
